---- MODULE Spec2Model ----
(***************************************************************************)
(* STP CDR parser (src/main.py): class CdrParser and the __main__ block.   *)
(*                                                                         *)
(* Python values are modelled as follows.                                  *)
(*   dict      a function whose DOMAIN is the set of keys present           *)
(*   list      a sequence; a criteria list is a set (only membership and   *)
(*             emptiness are read), None and [] both being {}              *)
(*   str       GT digits strings are sequences of characters (substring    *)
(*             tests are made on them), other strings are TLA+ strings     *)
(*   None      the integer None, outside the DIR values of the inputs      *)
(* The inputs follow the dump format the program trusts: every array       *)
(* element is a dict, every fragment with a non-null DIR has a numeric TS, *)
(* the values of MTP/SCCP/TCAP/SMS are dicts, TCAP.MAP is an integer and   *)
(* SCCP.A/SCCP.B are strings.  open(name, 'w', 0) is the Python 2 call     *)
(* (unbuffered file), under which save_to_file writes the file.            *)
(***************************************************************************)
EXTENDS Integers, Sequences, FiniteSets, TLC

VARIABLES
    link,         \* self.link
    map_code,     \* self.map_code
    dst_gt,       \* self.dst_gt
    src_gt,       \* self.src_gt
    cdr,          \* self.cdr, the accepted records
    nfiles,       \* len(self.cdr_files)
    fileIdx,      \* position of parse_file in self.cdr_files (1-based)
    nread,        \* lines taken from the input so far
    cdr_record,   \* the text line of the current iteration
    cdr_rec,      \* the decoded array handed to parse_cdr_rec
    records,      \* the list parse_cdr_rec returned for the current line
    verdict,      \* filter_cdr's answer for each of these records
    raised,       \* the exception that left parse_file, or "none"
    pc,           \* position of the program
    output_file   \* rows of the output file, NoFile while it was not written

vars == <<link, map_code, dst_gt, src_gt, cdr, nfiles, fileIdx, nread,
          cdr_record, cdr_rec, records, verdict, raised, pc, output_file>>

(***************************************************************************)
(* Bounds of the model.                                                    *)
(***************************************************************************)
MaxLen == 3
MaxFiles == 2
MaxLines == 3

(***************************************************************************)
(* Python primitives.                                                      *)
(***************************************************************************)
None == -1

has(d, k) == k \in DOMAIN d

get(d, k) == IF k \in DOMAIN d THEN d[k] ELSE None

\* x in s, for two strings
contains(s, x) ==
    \E i \in 1..(Len(s) + 1) :
        /\ i + Len(x) - 1 <= Len(s)
        /\ SubSeq(s, i, i + Len(x) - 1) = x

\* truth value of a criteria list: None and [] are false
truthy(l) == l # {}

(***************************************************************************)
(* datetime.fromtimestamp(float(ts)).strftime('%Y.%m.%d %H:%M:%S.%f'),     *)
(* as <<year, month, day, hour, minute, second, microsecond>>, for whole   *)
(* seconds since the epoch and a local time zone equal to UTC.             *)
(***************************************************************************)
strftime(ts) ==
    LET days == ts \div 86400
        secs == ts % 86400
        z    == days + 719468
        era  == z \div 146097
        doe  == z - era * 146097
        yoe  == (doe - doe \div 1460 + doe \div 36524 - doe \div 146096) \div 365
        doy  == doe - (365 * yoe + yoe \div 4 - yoe \div 100)
        mp   == (5 * doy + 2) \div 153
        d    == doy - (153 * mp + 2) \div 5 + 1
        m    == IF mp < 10 THEN mp + 3 ELSE mp - 9
        y    == yoe + era * 400 + (IF m <= 2 THEN 1 ELSE 0)
    IN  <<y, m, d, secs \div 3600, (secs % 3600) \div 60, secs % 60, 0>>

(***************************************************************************)
(* parse_cdr_rec                                                           *)
(***************************************************************************)
\* a variant that tests the truth value of DIR: "if cdr_dir"
is_boundary_truthy(cdr_part) == get(cdr_part, "DIR") \notin {None, 0}

\* cdr_dir = cdr_part.get('DIR'); if cdr_dir is not None
is_boundary(cdr_part) == get(cdr_part, "DIR") # None

\* a variant that also takes GENERAL_PART for a layer
layer_key_general_part(cdr_part) ==
    IF has(cdr_part, "MTP") THEN "MTP"
    ELSE IF has(cdr_part, "SCCP") THEN "SCCP"
    ELSE IF has(cdr_part, "TCAP") THEN "TCAP"
    ELSE IF has(cdr_part, "SMS") THEN "SMS"
    ELSE IF has(cdr_part, "GENERAL_PART") THEN "GENERAL_PART"
    ELSE "none"

\* the elif chain: the first of MTP, SCCP, TCAP, SMS the fragment carries
layer_key(cdr_part) ==
    IF has(cdr_part, "MTP") THEN "MTP"
    ELSE IF has(cdr_part, "SCCP") THEN "SCCP"
    ELSE IF has(cdr_part, "TCAP") THEN "TCAP"
    ELSE IF has(cdr_part, "SMS") THEN "SMS"
    ELSE "none"

\* rec = {'TS': ..., 'DIR': cdr_dir}
new_rec(cdr_part) ==
    [TS |-> strftime(cdr_part.TS), DIR |-> get(cdr_part, "DIR")]

\* a variant that keeps the value a record already has
set_layer_keep_first(rec, key, cdr_part) ==
    IF has(rec, key) THEN rec ELSE (key :> cdr_part[key]) @@ rec

\* rec[key] = cdr_part[key]
set_layer(rec, key, cdr_part) == (key :> cdr_part[key]) @@ rec

\* a variant in which rec stays bound to the first record of the line
rec_index_first(recs) == 1

\* rec names the record appended last
rec_index(recs) == Len(recs)

\* a variant that skips a layer fragment met while rec is unbound
attach_guarded(recs, key, cdr_part) ==
    IF recs = <<>>
    THEN [raised |-> "none", records |-> recs]
    ELSE [raised |-> "none",
          records |-> [recs EXCEPT ![rec_index(recs)] = set_layer(@, key, cdr_part)]]

\* rec[key] = ...: rec is a local name, unbound until the first boundary of
\* this call (UnboundLocalError)
attach(recs, key, cdr_part) ==
    IF recs = <<>>
    THEN [raised |-> "UnboundLocalError", records |-> <<>>]
    ELSE [raised |-> "none",
          records |-> [recs EXCEPT ![rec_index(recs)] = set_layer(@, key, cdr_part)]]

RECURSIVE parse_loop(_, _, _)
parse_loop(arr, i, recs) ==
    IF i > Len(arr) THEN [raised |-> "none", records |-> recs]
    ELSE LET cdr_part == arr[i] IN
         IF is_boundary(cdr_part)
         THEN parse_loop(arr, i + 1, Append(recs, new_rec(cdr_part)))
         ELSE IF layer_key(cdr_part) # "none"
         THEN LET a == attach(recs, layer_key(cdr_part), cdr_part) IN
              IF a.raised # "none" THEN a
              ELSE parse_loop(arr, i + 1, a.records)
         ELSE parse_loop(arr, i + 1, recs)

parse_cdr_rec(arr) == parse_loop(arr, 1, <<>>)

(***************************************************************************)
(* filter_cdr                                                              *)
(***************************************************************************)
\* the lookups of the try block that raise KeyError
filter_KeyError(c) ==
    \/ truthy(link) /\ ~(has(c, "GENERAL_PART") /\ has(c.GENERAL_PART, "LINK"))
    \/ truthy(map_code) /\ ~(has(c, "TCAP") /\ has(c.TCAP, "MAP"))
    \/ truthy(dst_gt) /\ ~(has(c, "SCCP") /\ has(c.SCCP, "B"))
    \/ truthy(src_gt) /\ ~(has(c, "SCCP") /\ has(c.SCCP, "A"))

filter_cdr(c) ==
    IF ~(truthy(link) \/ truthy(map_code) \/ truthy(dst_gt)) THEN TRUE
    ELSE IF filter_KeyError(c) THEN FALSE
    ELSE /\ truthy(link) => c.GENERAL_PART.LINK \in link
         /\ truthy(map_code) => c.TCAP.MAP \in map_code
         /\ truthy(dst_gt) => \E x \in dst_gt : contains(c.SCCP.B, x)
         /\ truthy(src_gt) => \E x \in src_gt : contains(c.SCCP.A, x)

\* a variant with the append outside the inner loop: only the last record
kept_last_only(recs) ==
    IF recs # <<>> /\ filter_cdr(recs[Len(recs)]) THEN <<recs[Len(recs)]>> ELSE <<>>

\* for record in cdr: if self.filter_cdr(record): self.cdr.append(record)
kept(recs) == SelectSeq(recs, filter_cdr)

verdicts(recs) == [i \in 1..Len(recs) |-> filter_cdr(recs[i])]

(***************************************************************************)
(* Inputs of the one-line specification: the fragments an array is made of *)
(* and the filter criteria.                                                *)
(***************************************************************************)
SCCP1 == [A |-> <<"4", "1">>, B |-> <<"1", "2", "3">>]
SCCP2 == [A |-> <<"7">>, B |-> <<"9", "9">>]
SCCP3 == [B |-> <<"1", "2", "3">>]
TCAP1 == [MAP |-> 5, SRC |-> "x", DST |-> "y"]
TCAP2 == [MAP |-> 7, SRC |-> "x", DST |-> "y"]
TCAP3 == [SRC |-> "x"]
SMS1 == [A |-> "3", B |-> "4", IMSI_A |-> "5"]
MTP1 == [OPC |-> 1, DPC |-> 2]

Fragments ==
    { [DIR |-> 1, TS |-> 1000000000],
      [DIR |-> 0, TS |-> 1000000100, TCAP |-> TCAP2],
      [SCCP |-> SCCP1],
      [SCCP |-> SCCP2],
      [SCCP |-> SCCP3],
      [TCAP |-> TCAP1],
      [TCAP |-> TCAP2],
      [TCAP |-> TCAP3],
      [SMS |-> SMS1],
      [MTP |-> MTP1, SMS |-> SMS1],
      [DIR |-> None, SCCP |-> SCCP2],
      [DIR |-> None, GENERAL_PART |-> [LINK |-> 1]] }

ExampleArray ==
    << [DIR |-> 1, TS |-> 1000000000],
       [SCCP |-> [A |-> <<"1">>, B |-> <<"2">>]],
       [TCAP |-> TCAP1],
       [DIR |-> 2, TS |-> 1000000100],
       [SMS |-> SMS1] >>

Arrays ==
    UNION {[1..n -> Fragments] : n \in 0..MaxLen} \cup {ExampleArray}

LinkArgs == {{}, {1}}
MapCodeArgs == {{}, {5, 6}}
DstGtArgs == {{}, {<<"5">>, <<"2", "3">>}}
SrcGtArgs == {{}, {<<"1">>}}

NoLine == [defect |-> "none", value |-> <<>>]
NoFile == <<>>

(***************************************************************************)
(* One line: the body of parse_file's inner loop after decoding, in two    *)
(* steps, on an array and criteria drawn by InitFn.                        *)
(***************************************************************************)
InitFn ==
    /\ link \in LinkArgs
    /\ map_code \in MapCodeArgs
    /\ dst_gt \in DstGtArgs
    /\ src_gt \in SrcGtArgs
    /\ cdr_rec \in Arrays
    /\ cdr = <<>>
    /\ nfiles = 1
    /\ fileIdx = 1
    /\ nread = 1
    /\ cdr_record = NoLine
    /\ records = <<>>
    /\ verdict = <<>>
    /\ raised = "none"
    /\ pc = "parse_cdr_rec"
    /\ output_file = NoFile

\* cdr = self.parse_cdr_rec(cdr_obj)
Assemble ==
    /\ pc = "parse_cdr_rec"
    /\ LET a == parse_cdr_rec(cdr_rec) IN
       /\ records' = a.records
       /\ raised' = a.raised
       /\ pc' = IF a.raised = "none" THEN "filter_cdr" ELSE "except"
    /\ UNCHANGED <<link, map_code, dst_gt, src_gt, cdr, nfiles, fileIdx, nread,
                   cdr_record, cdr_rec, verdict, output_file>>

\* for record in cdr: ...
FilterRecords ==
    /\ pc = "filter_cdr"
    /\ verdict' = verdicts(records)
    /\ cdr' = cdr \o kept(records)
    /\ pc' = "appended"
    /\ UNCHANGED <<link, map_code, dst_gt, src_gt, nfiles, fileIdx, nread,
                   cdr_record, cdr_rec, records, raised, output_file>>

NextFn == Assemble \/ FilterRecords

SpecFn == InitFn /\ [][NextFn]_vars

(***************************************************************************)
(* The run: __main__ after the construction of CdrParser.                  *)
(***************************************************************************)
\* A text line is modelled by the defect that makes json.loads reject it
\* and by the value it denotes once that defect is removed.
\*   "none"           well-formed JSON
\*   "dot_quote"      a quote appended after a period (."), removed by
\*                    cdr_record.replace('."', '.')
\*   "doubled_quote"  :"<digits>.<digits>.<word>"", collapsed by re.sub
\*   "other"          anything else
json_loads(text) ==
    IF text.defect = "none"
    THEN [raised |-> "none", value |-> text.value]
    ELSE [raised |-> "ValueError", value |-> <<>>]

\* the two rewrites of the except ValueError branch
repair(text) ==
    [text EXCEPT !.defect = IF @ \in {"dot_quote", "doubled_quote"} THEN "none" ELSE @]

\* try: json.loads(cdr_record) except ValueError: repair, json.loads again
decode(text) ==
    IF json_loads(text).raised = "none" THEN json_loads(text)
    ELSE json_loads(repair(text))

Lines ==
    { [defect |-> "none",
       value |-> << [DIR |-> 1, TS |-> 1000000000], [SCCP |-> SCCP1],
                    [TCAP |-> TCAP1], [SMS |-> SMS1] >>],
      [defect |-> "doubled_quote",
       value |-> << [DIR |-> 0, TS |-> 1000000100, TCAP |-> TCAP1],
                    [SCCP |-> SCCP2], [TCAP |-> TCAP2], [SMS |-> SMS1] >>],
      [defect |-> "none",
       value |-> << [DIR |-> 1, TS |-> 1000000000], [TCAP |-> TCAP1],
                    [DIR |-> 2, TS |-> 1000000100], [SCCP |-> SCCP1] >>],
      [defect |-> "dot_quote",
       value |-> << [DIR |-> 2, TS |-> 1000000100], [SCCP |-> SCCP3],
                    [TCAP |-> TCAP3] >>],
      [defect |-> "none",
       value |-> << [DIR |-> None, SEQ |-> 1],
                    [DIR |-> 1, TS |-> 1000000000],
                    [GENERAL_PART |-> [LINK |-> 1]], [SMS |-> SMS1] >>],
      [defect |-> "none",
       value |-> << [DIR |-> None, SEQ |-> 1],
                    [SCCP |-> SCCP1], [DIR |-> 1, TS |-> 1000000000] >>],
      [defect |-> "other", value |-> <<>>] }

Init ==
    /\ link \in LinkArgs
    /\ map_code \in MapCodeArgs
    /\ dst_gt \in DstGtArgs
    /\ src_gt \in SrcGtArgs
    /\ nfiles \in 0..MaxFiles
    /\ cdr = <<>>
    /\ fileIdx = 1
    /\ nread = 0
    /\ cdr_record = NoLine
    /\ cdr_rec = <<>>
    /\ records = <<>>
    /\ verdict = <<>>
    /\ raised = "none"
    /\ pc = "parse_file"
    /\ output_file = NoFile

\* a variant in which the loop catches the exception and goes on
after_raise_continue == "parse_file"

\* an exception leaves parse_file and the try block of __main__: control
\* goes to the except clause, past save_to_file
after_raise == "except"

\* one iteration of "for i, cdr_record in enumerate(f_gz)"
ParseLine ==
    /\ pc = "parse_file"
    /\ fileIdx <= nfiles
    /\ nread < MaxLines
    /\ \E text \in Lines :
         LET d == decode(text)
             a == parse_cdr_rec(d.value)
         IN  /\ cdr_record' = text
             /\ nread' = nread + 1
             /\ cdr_rec' = d.value
             /\ IF d.raised # "none"
                THEN /\ raised' = d.raised
                     /\ pc' = after_raise
                     /\ records' = <<>>
                     /\ verdict' = <<>>
                     /\ cdr' = cdr
                ELSE IF a.raised # "none"
                THEN /\ raised' = a.raised
                     /\ pc' = after_raise
                     /\ records' = <<>>
                     /\ verdict' = <<>>
                     /\ cdr' = cdr
                ELSE /\ raised' = raised
                     /\ pc' = pc
                     /\ records' = a.records
                     /\ verdict' = verdicts(a.records)
                     /\ cdr' = cdr \o kept(a.records)
    /\ UNCHANGED <<link, map_code, dst_gt, src_gt, nfiles, fileIdx, output_file>>

\* the file is exhausted: f_gz.close(), next zip_file
CloseFile ==
    /\ pc = "parse_file"
    /\ fileIdx <= nfiles
    /\ fileIdx' = fileIdx + 1
    /\ UNCHANGED <<link, map_code, dst_gt, src_gt, cdr, nfiles, nread, cdr_record,
                   cdr_rec, records, verdict, raised, pc, output_file>>

Header == <<"TS", "MAP_CODE", "DTID", "OTID", "SCCP_A", "SCCP_B", "SMS_A", "SMS_B", "IMSI_A">>

\* the lookups of the row that raise KeyError
row_KeyError(c) ==
    ~ /\ has(c, "TS")
      /\ has(c, "TCAP") /\ has(c.TCAP, "MAP") /\ has(c.TCAP, "DST") /\ has(c.TCAP, "SRC")
      /\ has(c, "SCCP") /\ has(c.SCCP, "A") /\ has(c.SCCP, "B")
      /\ has(c, "SMS") /\ has(c.SMS, "A") /\ has(c.SMS, "B") /\ has(c.SMS, "IMSI_A")

csv_row(c) ==
    <<c.TS, c.TCAP.MAP, c.TCAP.DST, c.TCAP.SRC, c.SCCP.A, c.SCCP.B,
      c.SMS.A, c.SMS.B, c.SMS.IMSI_A>>

\* a variant with the try around the loop: the first KeyError ends the export
RECURSIVE write_rows_until_KeyError(_)
write_rows_until_KeyError(cdrs) ==
    IF cdrs = <<>> \/ row_KeyError(Head(cdrs)) THEN <<>>
    ELSE <<csv_row(Head(cdrs))>> \o write_rows_until_KeyError(Tail(cdrs))

\* for cdr in self.cdr: try: csv_writer.writerow([...]) except KeyError: pass
RECURSIVE write_rows(_)
write_rows(cdrs) ==
    IF cdrs = <<>> THEN <<>>
    ELSE (IF row_KeyError(Head(cdrs)) THEN <<>> ELSE <<csv_row(Head(cdrs))>>)
         \o write_rows(Tail(cdrs))

\* parse_file returned: cdr_parser.save_to_file(), then 'finished work'
SaveToFile ==
    /\ pc = "parse_file"
    /\ fileIdx = nfiles + 1
    /\ output_file' = <<Header>> \o write_rows(cdr)
    /\ pc' = "finished"
    /\ UNCHANGED <<link, map_code, dst_gt, src_gt, cdr, nfiles, fileIdx, nread,
                   cdr_record, cdr_rec, records, verdict, raised>>

\* except: logger.exception(...), then 'finished work'
Except ==
    /\ pc = "except"
    /\ pc' = "finished"
    /\ UNCHANGED <<link, map_code, dst_gt, src_gt, cdr, nfiles, fileIdx, nread,
                   cdr_record, cdr_rec, records, verdict, raised, output_file>>

Next == ParseLine \/ CloseFile \/ SaveToFile \/ Except

Spec == Init /\ [][Next]_vars

(***************************************************************************)
(* Properties.  The vocabulary of the specification, stated on the input   *)
(* array alone.                                                            *)
(***************************************************************************)
Layers == {"MTP", "SCCP", "TCAP", "SMS"}

IsBoundaryFragment(f) == "DIR" \in DOMAIN f /\ f.DIR # None

\* the kind under which a fragment is recognised
FragmentKind(f) ==
    IF IsBoundaryFragment(f) THEN "boundary"
    ELSE IF "MTP" \in DOMAIN f THEN "MTP"
    ELSE IF "SCCP" \in DOMAIN f THEN "SCCP"
    ELSE IF "TCAP" \in DOMAIN f THEN "TCAP"
    ELSE IF "SMS" \in DOMAIN f THEN "SMS"
    ELSE "none"

BoundaryPositions(arr) == {i \in 1..Len(arr) : IsBoundaryFragment(arr[i])}

BoundariesUpTo(arr, i) == Cardinality({j \in BoundaryPositions(arr) : j <= i})

NthBoundary(arr, n) ==
    CHOOSE i \in BoundaryPositions(arr) : BoundariesUpTo(arr, i) = n

\* the last position before the next boundary fragment, or the end of the array
SegmentEnd(arr, b) ==
    IF \E j \in BoundaryPositions(arr) : j > b
    THEN (CHOOSE j \in BoundaryPositions(arr) :
              j > b /\ \A k \in BoundaryPositions(arr) : k > b => j <= k) - 1
    ELSE Len(arr)

MaxOf(S) == CHOOSE x \in S : \A y \in S : y <= x

\* a layer fragment comes before any boundary fragment of the array
LeadingLayer(arr) ==
    \E j \in 1..Len(arr) :
        /\ FragmentKind(arr[j]) \in Layers
        /\ \A i \in 1..(j - 1) : ~IsBoundaryFragment(arr[i])

Assembled == pc \in {"filter_cdr", "appended", "except"}

\* C1: for an array whose first recognised fragment is a boundary fragment,
\* parse_cdr_rec returns one CDR per boundary fragment, in their order, and
\* the field K of a CDR is the value of the last K-fragment between its
\* boundary fragment and the next one (or the end), absent if there is none.
C1_OneCdrPerBoundaryLastWriteWins ==
    (Assembled /\ ~LeadingLayer(cdr_rec)) =>
        /\ raised = "none"
        /\ Len(records) = Cardinality(BoundaryPositions(cdr_rec))
        /\ \A n \in 1..Len(records) :
             LET b == NthBoundary(cdr_rec, n)
                 e == SegmentEnd(cdr_rec, b)
             IN  /\ records[n].DIR = cdr_rec[b].DIR
                 /\ records[n].TS = strftime(cdr_rec[b].TS)
                 /\ \A K \in Layers :
                      LET S == {j \in (b + 1)..e : FragmentKind(cdr_rec[j]) = K}
                      IN  IF S = {} THEN K \notin DOMAIN records[n]
                          ELSE /\ K \in DOMAIN records[n]
                               /\ records[n][K] = cdr_rec[MaxOf(S)][K]

\* a CDR received two different values of one kind and holds the later one
C1_Witness ==
    /\ pc = "filter_cdr"
    /\ \E i, j \in 1..Len(cdr_rec) :
         /\ i < j
         /\ BoundariesUpTo(cdr_rec, i) = 1
         /\ BoundariesUpTo(cdr_rec, j) = 1
         /\ FragmentKind(cdr_rec[i]) = "TCAP"
         /\ FragmentKind(cdr_rec[j]) = "TCAP"
         /\ cdr_rec[i].TCAP # cdr_rec[j].TCAP
         /\ SegmentEnd(cdr_rec, NthBoundary(cdr_rec, 1)) = j
         /\ records[1].TCAP = cdr_rec[j].TCAP

SomeCriterion == link # {} \/ map_code # {} \/ dst_gt # {} \/ src_gt # {}

IsSubstring(x, s) ==
    \E i \in 0..Len(s) : \E k \in 0..Len(s) :
        i + k <= Len(s) /\ k = Len(x) /\ \A m \in 1..k : s[i + m] = x[m]

CarriesPath(c, outer, inner) == outer \in DOMAIN c /\ inner \in DOMAIN c[outer]

\* C2: with link absent and one of map_code, dst_gt, src_gt configured, a
\* CDR carrying TCAP.MAP, SCCP.A and SCCP.B is accepted exactly when every
\* configured criterion holds (src_gt alone included).
C2_AcceptIffAllConfiguredHold ==
    (pc = "appended" /\ link = {} /\ SomeCriterion) =>
        \A i \in 1..Len(records) :
            LET c == records[i] IN
            (CarriesPath(c, "TCAP", "MAP") /\ CarriesPath(c, "SCCP", "A")
                 /\ CarriesPath(c, "SCCP", "B")) =>
                (verdict[i] <=>
                    /\ map_code = {} \/ c.TCAP.MAP \in map_code
                    /\ dst_gt = {} \/ \E x \in dst_gt : IsSubstring(x, c.SCCP.B)
                    /\ src_gt = {} \/ \E x \in src_gt : IsSubstring(x, c.SCCP.A))

LacksRequiredField(c) ==
    \/ link # {} /\ ~CarriesPath(c, "GENERAL_PART", "LINK")
    \/ map_code # {} /\ ~CarriesPath(c, "TCAP", "MAP")
    \/ dst_gt # {} /\ ~CarriesPath(c, "SCCP", "B")
    \/ src_gt # {} /\ ~CarriesPath(c, "SCCP", "A")

\* C3: when one or more of the four criteria is configured, a CDR lacking
\* a field that a configured criterion needs is rejected.
C3_MissingFieldRejects ==
    (pc = "appended" /\ SomeCriterion) =>
        \A i \in 1..Len(records) :
            LacksRequiredField(records[i]) => ~verdict[i]

\* C6: with no criterion configured every CDR of the line is accepted and
\* appended to the accumulated collection, whatever layers it carries.
C6_NoCriteriaAcceptsAll ==
    (pc = "appended" /\ ~SomeCriterion) =>
        /\ \A i \in 1..Len(records) : verdict[i]
        /\ cdr = records

\* two CDRs were accepted, the first with no layer at all
C6_Witness ==
    /\ pc = "appended"
    /\ ~SomeCriterion
    /\ Len(records) >= 2
    /\ DOMAIN records[1] = {"TS", "DIR"}
    /\ cdr = records

\* C8 as stated: on the example array the second CDR has only DIR and TS.
C8_SecondCdrHasOnlyDirTs ==
    (Assembled /\ cdr_rec = ExampleArray) =>
        /\ raised = "none"
        /\ Len(records) = 2
        /\ DOMAIN records[1] = {"TS", "DIR", "SCCP", "TCAP"}
        /\ DOMAIN records[2] = {"TS", "DIR"}

\* C8 as amended: on the example array parse_cdr_rec yields two CDRs, the
\* first with SCCP and TCAP and no SMS, the second with DIR, TS and the SMS
\* fragment that follows its boundary fragment, and no SCCP and no TCAP.
C8_SecondCdrHasSms ==
    (Assembled /\ cdr_rec = ExampleArray) =>
        /\ raised = "none"
        /\ Len(records) = 2
        /\ DOMAIN records[1] = {"TS", "DIR", "SCCP", "TCAP"}
        /\ records[1].SCCP = ExampleArray[2].SCCP
        /\ records[1].TCAP = ExampleArray[3].TCAP
        /\ records[1].DIR = 1
        /\ records[1].TS = <<2001, 9, 9, 1, 46, 40, 0>>
        /\ DOMAIN records[2] = {"TS", "DIR", "SMS"}
        /\ records[2].SMS = ExampleArray[5].SMS
        /\ records[2].DIR = 2
        /\ records[2].TS = <<2001, 9, 9, 1, 48, 20, 0>>

C8_Witness == pc = "filter_cdr" /\ cdr_rec = ExampleArray /\ Len(records) = 2

HasNullDir(f) == "DIR" \in DOMAIN f /\ f.DIR = None

FirstLayerKey(f) ==
    IF "MTP" \in DOMAIN f THEN "MTP"
    ELSE IF "SCCP" \in DOMAIN f THEN "SCCP"
    ELSE IF "TCAP" \in DOMAIN f THEN "TCAP"
    ELSE IF "SMS" \in DOMAIN f THEN "SMS"
    ELSE "none"

NonNullDirPositions(arr) ==
    {i \in 1..Len(arr) : "DIR" \in DOMAIN arr[i] /\ arr[i].DIR # None}

\* the fragments strictly between positions lo and hi carry no DIR value and
\* none of them has K for first layer key
NoLayerBetween(arr, lo, hi, K) ==
    \A m \in (lo + 1)..(hi - 1) :
        m \in NonNullDirPositions(arr) \/ FirstLayerKey(arr[m]) # K

\* C10: a fragment whose DIR is null opens no CDR; if it carries a layer key
\* it is attached to the open CDR, or is fatal when none is open.  A fragment
\* with a non-null DIR opens a CDR and its own layer keys are discarded.
C10_NullDirIsNotABoundary ==
    Assembled =>
        /\ raised = "none" =>
               Len(records) = Cardinality(NonNullDirPositions(cdr_rec))
        /\ \A j \in 1..Len(cdr_rec) :
             (HasNullDir(cdr_rec[j]) /\ FirstLayerKey(cdr_rec[j]) # "none") =>
                 LET K == FirstLayerKey(cdr_rec[j])
                     before == {i \in NonNullDirPositions(cdr_rec) : i < j}
                     after == {i \in NonNullDirPositions(cdr_rec) : i > j}
                     stop == IF after = {} THEN Len(cdr_rec) + 1
                             ELSE CHOOSE i \in after : \A k \in after : i <= k
                 IN  IF before = {} THEN raised = "UnboundLocalError"
                     ELSE (raised = "none" /\ NoLayerBetween(cdr_rec, j, stop, K)) =>
                              /\ K \in DOMAIN records[Cardinality(before)]
                              /\ records[Cardinality(before)][K] = cdr_rec[j][K]
        /\ raised = "none" =>
               \A b \in NonNullDirPositions(cdr_rec) :
                   LET n == Cardinality({i \in NonNullDirPositions(cdr_rec) : i <= b})
                       after == {i \in NonNullDirPositions(cdr_rec) : i > b}
                       stop == IF after = {} THEN Len(cdr_rec) + 1
                               ELSE CHOOSE i \in after : \A k \in after : i <= k
                   IN  /\ records[n].DIR = cdr_rec[b].DIR
                       /\ \A K \in Layers :
                            NoLayerBetween(cdr_rec, b, stop, K) =>
                                K \notin DOMAIN records[n]

\* a boundary fragment with DIR 0 that carries TCAP opened a CDR without
\* TCAP, and a null-DIR fragment carrying SCCP was attached to that CDR
C10_Witness ==
    /\ pc = "filter_cdr"
    /\ Len(cdr_rec) >= 2
    /\ "TCAP" \in DOMAIN cdr_rec[1]
    /\ cdr_rec[1].DIR = 0
    /\ HasNullDir(cdr_rec[2])
    /\ Len(records) = 1
    /\ DOMAIN records[1] = {"TS", "DIR", "SCCP"}
    /\ records[1].SCCP = cdr_rec[2].SCCP

NineFields ==
    { <<"TCAP", "MAP">>, <<"TCAP", "DST">>, <<"TCAP", "SRC">>,
      <<"SCCP", "A">>, <<"SCCP", "B">>,
      <<"SMS", "A">>, <<"SMS", "B">>, <<"SMS", "IMSI_A">> }

\* the CDR has TS and the eight nested fields of the export
HasAllNine(c) ==
    "TS" \in DOMAIN c /\ \A path \in NineFields : CarriesPath(c, path[1], path[2])

CompletePositions == {i \in 1..Len(cdr) : HasAllNine(cdr[i])}

\* C4: after the header, save_to_file emits one row for each accumulated CDR
\* that has all nine fields, in the order of the accumulated CDRs, and no row
\* for a CDR missing one of them (a CDR without TCAP among them).
C4_OneRowPerCompleteCdr ==
    output_file # NoFile =>
        /\ pc = "finished"
        /\ output_file[1] = Header
        /\ Len(output_file) = 1 + Cardinality(CompletePositions)
        /\ \A i \in CompletePositions :
             LET c == cdr[i]
                 k == 1 + Cardinality({j \in CompletePositions : j <= i})
             IN  /\ output_file[k][1] = c["TS"]
                 /\ output_file[k][2] = c["TCAP"]["MAP"]
                 /\ output_file[k][3] = c["TCAP"]["DST"]
                 /\ output_file[k][4] = c["TCAP"]["SRC"]
                 /\ output_file[k][5] = c["SCCP"]["A"]
                 /\ output_file[k][6] = c["SCCP"]["B"]
                 /\ output_file[k][7] = c["SMS"]["A"]
                 /\ output_file[k][8] = c["SMS"]["B"]
                 /\ output_file[k][9] = c["SMS"]["IMSI_A"]
                 /\ Len(output_file[k]) = 9

\* the file was written from a collection in which an accepted CDR without
\* TCAP precedes a complete one, and a second complete CDR differs from it
C4_Witness ==
    /\ pc = "finished"
    /\ output_file # NoFile
    /\ Len(output_file) = 3
    /\ output_file[2] # output_file[3]
    /\ \E i, j \in 1..Len(cdr) :
         i < j /\ "TCAP" \notin DOMAIN cdr[i] /\ HasAllNine(cdr[j])

\* C5 as stated: after a fatal error that follows accepted CDRs, the run has
\* written these CDRs to the output file when it is finished.
C5_PartialResultsWritten ==
    (pc = "finished" /\ raised # "none" /\ cdr # <<>>) =>
        /\ output_file # NoFile
        /\ Len(output_file) = 1 + Cardinality(CompletePositions)

\* C5 as amended: a fatal error while parsing takes the run to its except
\* clause and to its finished state without save_to_file being called; the
\* output file is not written, whatever was accepted before the error.
C5_NoOutputAfterFatalError ==
    /\ raised # "none" => (pc \in {"except", "finished"} /\ output_file = NoFile)
    /\ (pc = "finished" /\ raised = "none") => output_file # NoFile

\* the run finished after an error that followed accepted, exportable CDRs
C5_Witness ==
    /\ pc = "finished"
    /\ raised # "none"
    /\ CompletePositions # {}
    /\ output_file = NoFile

\* C7: when link is configured no CDR of any line is accepted, and the
\* accumulated collection stays empty for the whole run.
C7_LinkRejectsEverything ==
    link # {} =>
        /\ cdr = <<>>
        /\ \A i \in 1..Len(verdict) : ~verdict[i]
        /\ \A i \in 1..Len(records) : "GENERAL_PART" \notin DOMAIN records[i]
        /\ output_file \in {NoFile, <<Header>>}

\* link is the only criterion, and a line whose CDR is followed by a
\* GENERAL_PART fragment with a configured link id was parsed and rejected
C7_Witness ==
    /\ link = {1}
    /\ map_code = {} /\ dst_gt = {} /\ src_gt = {}
    /\ pc = "finished"
    /\ output_file = <<Header>>
    /\ Len(records) = 1
    /\ \E j \in 2..Len(cdr_rec) :
         /\ "GENERAL_PART" \in DOMAIN cdr_rec[j]
         /\ cdr_rec[j].GENERAL_PART.LINK \in link
         /\ BoundariesUpTo(cdr_rec, j) = 1

Decodable(text) == text.defect \in {"none", "dot_quote", "doubled_quote"}

\* C9: a line whose array has a layer fragment before any boundary fragment
\* fails with an error, whatever earlier lines left behind; none of its CDRs
\* is filtered or appended and nothing is read after it.  A line whose
\* leading fragments carry none of DIR/MTP/SCCP/TCAP/SMS does not fail.
C9_LeadingLayerIsFatal ==
    [][ /\ (nread' = nread + 1 /\ Decodable(cdr_record')) =>
              IF LeadingLayer(cdr_rec')
              THEN /\ raised' = "UnboundLocalError"
                   /\ pc' = "except"
                   /\ cdr' = cdr
                   /\ records' = <<>>
                   /\ verdict' = <<>>
              ELSE /\ raised' = "none"
                   /\ pc' = "parse_file"
                   /\ Len(records') = Cardinality(BoundaryPositions(cdr_rec'))
        /\ raised # "none" =>
              /\ nread' = nread
              /\ fileIdx' = fileIdx
              /\ cdr' = cdr
              /\ cdr_rec' = cdr_rec
      ]_vars

\* after a line that left an accepted CDR open, a line failed on a layer
\* fragment that follows an ignored fragment
C9_Witness ==
    /\ raised = "UnboundLocalError"
    /\ nread >= 2
    /\ cdr # <<>>
    /\ Len(cdr_rec) >= 2
    /\ FragmentKind(cdr_rec[1]) = "none"
    /\ FragmentKind(cdr_rec[2]) \in Layers

====
